---- MODULE Spec2Model ----
(***************************************************************************)
(* Journal app: the entry repository (src/lib/entries.ts) over the         *)
(* Firestore "entries" collection guarded by the security rules of         *)
(* DESIGN.md, and the EntryList view that consumes it.                     *)
(***************************************************************************)
EXTENDS Integers, Sequences, FiniteSets, Bags, TLC

\* ---- bounds -------------------------------------------------------------
MaxIds == 2
MaxTime == 1
MaxInFlight == 2

Users == {"u1", "u2"}
NoUser == "null"
Principals == Users \cup {NoUser}
Contents == {<<"a">>, <<"b">>}
NoContent == <<>>
Ids == 1..MaxIds
NoId == 0
Times == 0..MaxTime

VARIABLES
  store,        \* the "entries" collection: document id -> FirestoreEntry
  usedIds,      \* document ids the auto-id generator has handed out
  serverClock,  \* the store's clock (ms)
  api,          \* the repository call of a direct consumer of entries.ts
  deleted,      \* ids whose deleteEntry call was answered with success
  user,         \* useAuth().user seen by EntryList
  mounted,      \* EntryList has been rendered and its first effect has run
  entries,      \* EntryList state: entries
  loading,      \* EntryList state: loading
  deletingId,   \* EntryList state: deletingId
  net,          \* the views' store requests in flight (a bag)
  content,      \* EntryForm state: content (the textarea's text)
  isSubmitting, \* EntryForm state: isSubmitting
  refreshTrigger, \* Home state: refreshTrigger
  created,      \* id returned by the composer's latest successful createEntry
  authLoading   \* useAuth().loading: no auth state has been reported yet

vars == <<store, usedIds, serverClock, api, deleted,
          user, mounted, entries, loading, deletingId, net,
          content, isSubmitting, refreshTrigger, created, authLoading>>

repoVars == <<store, usedIds, serverClock, api, deleted>>
viewVars == <<user, mounted, entries, loading, deletingId, net>>
formVars == <<content, isSubmitting, refreshTrigger, created>>

\* ---- Timestamp ----------------------------------------------------------
\* Timestamp.now(): built from the caller's Date.now() (milliseconds)
TimestampNow(ms) ==
  [seconds |-> ms \div 1000, nanoseconds |-> (ms % 1000) * 1000000]

\* Timestamp.toDate(): back to a millisecond Date
toDate(ts) == ts.seconds * 1000 + ts.nanoseconds \div 1000000

TsLess(a, b) ==
  \/ a.seconds < b.seconds
  \/ a.seconds = b.seconds /\ a.nanoseconds < b.nanoseconds

\* ---- security rules (match /entries/{entryId}) ---------------------------
\* allow read: if request.auth.uid == resource.data.userId;
\* a query is admitted only if its filter pins userId to the requester
allowRead(auth, userId) == auth # NoUser /\ auth = userId

\* allow create: if request.auth.uid == request.resource.data.userId;
allowCreate(auth, data) == auth # NoUser /\ auth = data.userId

\* (mutant) the delete rule only asks that the document exists
allowDeleteAnyone(st, auth, entryId) == entryId \in DOMAIN st

\* allow delete: if request.auth.uid == resource.data.userId;
allowDelete(st, auth, entryId) ==
  /\ auth # NoUser
  /\ entryId \in DOMAIN st
  /\ auth = st[entryId].userId

\* ---- the query of getEntriesForUser ---------------------------------------
Docs(st) == { [id |-> i, data |-> st[i]] : i \in DOMAIN st }

\* (mutant) the userId filter is left out of the query
whereAll(docs, userId) == docs

\* where("userId", "==", userId)
where(docs, userId) == { d \in docs : d.data.userId = userId }

\* (mutant) orderBy("createdAt", "asc")
BeforeAsc(d, e) ==
  \/ TsLess(d.data.createdAt, e.data.createdAt)
  \/ d.data.createdAt = e.data.createdAt /\ d.id < e.id

\* orderBy("createdAt", "desc"): later createdAt first, ties by document id
Before(d, e) ==
  \/ TsLess(e.data.createdAt, d.data.createdAt)
  \/ d.data.createdAt = e.data.createdAt /\ d.id > e.id

RECURSIVE orderBy(_)
orderBy(docs) ==
  IF docs = {} THEN <<>>
  ELSE LET first == CHOOSE d \in docs : \A e \in docs \ {d} : Before(d, e)
       IN  <<first>> \o orderBy(docs \ {first})

\* snapshot.docs.map(...): Firestore document -> Entry
toEntry(d) ==
  [id |-> d.id, userId |-> d.data.userId, content |-> d.data.content,
   createdAt |-> toDate(d.data.createdAt)]

getEntriesForUser(st, userId) ==
  LET docs == orderBy(where(Docs(st), userId))
  IN  [i \in 1..Len(docs) |-> toEntry(docs[i])]

\* ---- store operations ----------------------------------------------------
\* a request record; fields an operation does not use keep their blank value
NoTs == TimestampNow(0)

Req(op, auth, userId, text, createdAt, entryId) ==
  [op |-> op, auth |-> auth, userId |-> userId, content |-> text,
   createdAt |-> createdAt, entryId |-> entryId,
   phase |-> "sent", tries |-> 0, id |-> NoId, result |-> <<>>]

NoCall == [Req("none", NoUser, NoUser, NoContent, NoTs, NoId) EXCEPT !.phase = "none"]

\* (mutant) the id generator hands out any id no stored document has
AutoIdsReused(used) == Ids \ DOMAIN store

\* (mutant) the id generator hands out any id at all
AutoIdsAny(used) == Ids

\* addDoc's auto-generated document id: one never handed out before
AutoIds(used) == Ids \ used

\* (mutant) a refused write still leaves its document behind
addDocPartial(st, r, id, up) ==
  LET data == [userId |-> r.userId, content |-> r.content,
               createdAt |-> r.createdAt]
      written == [i \in DOMAIN st \cup {id} |-> IF i = id THEN data ELSE st[i]]
  IN  IF up /\ allowCreate(r.auth, data)
      THEN [store |-> written, resp |-> [r EXCEPT !.phase = "ok", !.id = id]]
      ELSE [store |-> written, resp |-> [r EXCEPT !.phase = "err"]]

\* (mutant) the reference handed back is that of some stored document,
\* not necessarily the one just written
addDocSomeRef(st, r, id, up) ==
  LET data == [userId |-> r.userId, content |-> r.content,
               createdAt |-> r.createdAt]
      written == [i \in DOMAIN st \cup {id} |-> IF i = id THEN data ELSE st[i]]
  IN  IF up /\ allowCreate(r.auth, data)
      THEN [store |-> written,
            resp  |-> [r EXCEPT !.phase = "ok",
                                !.id = CHOOSE i \in DOMAIN written :
                                         \A j \in DOMAIN written : i <= j]]
      ELSE [store |-> st, resp |-> [r EXCEPT !.phase = "err"]]

\* addDoc(collection(db, "entries"), {userId, content, createdAt})
addDoc(st, r, id, up) ==
  LET data == [userId |-> r.userId, content |-> r.content,
               createdAt |-> r.createdAt]
  IN  IF up /\ allowCreate(r.auth, data)
      THEN [store |-> [i \in DOMAIN st \cup {id} |->
                         IF i = id THEN data ELSE st[i]],
            resp  |-> [r EXCEPT !.phase = "ok", !.id = id]]
      ELSE [store |-> st, resp |-> [r EXCEPT !.phase = "err"]]

\* (mutant) an empty snapshot is reported as a failure
getDocsThrowsOnEmpty(st, r, up) ==
  IF up /\ allowRead(r.auth, r.userId) /\ getEntriesForUser(st, r.userId) # <<>>
  THEN [store |-> st,
        resp  |-> [r EXCEPT !.phase = "ok",
                            !.result = getEntriesForUser(st, r.userId)]]
  ELSE [store |-> st, resp |-> [r EXCEPT !.phase = "err"]]

\* getDocs(q) followed by the map of getEntriesForUser
getDocs(st, r, up) ==
  IF up /\ allowRead(r.auth, r.userId)
  THEN [store |-> st,
        resp  |-> [r EXCEPT !.phase = "ok",
                            !.result = getEntriesForUser(st, r.userId)]]
  ELSE [store |-> st, resp |-> [r EXCEPT !.phase = "err"]]

\* (mutant) a refused delete still removes the document
deleteDocAnyway(st, r, up) ==
  [store |-> [i \in DOMAIN st \ {r.entryId} |-> st[i]],
   resp  |-> [r EXCEPT !.phase =
                IF up /\ allowDelete(st, r.auth, r.entryId) THEN "ok" ELSE "err"]]

\* (mutant) the delete takes every document of the same owner with it
deleteDocOfOwner(st, r, up) ==
  IF up /\ allowDelete(st, r.auth, r.entryId)
  THEN [store |-> [i \in { j \in DOMAIN st : st[j].userId # r.auth } |-> st[i]],
        resp  |-> [r EXCEPT !.phase = "ok"]]
  ELSE [store |-> st, resp |-> [r EXCEPT !.phase = "err"]]

\* deleteDoc(doc(db, "entries", entryId))
deleteDoc(st, r, up) ==
  IF up /\ allowDelete(st, r.auth, r.entryId)
  THEN [store |-> [i \in DOMAIN st \ {r.entryId} |-> st[i]],
        resp  |-> [r EXCEPT !.phase = "ok"]]
  ELSE [store |-> st, resp |-> [r EXCEPT !.phase = "err"]]

\* one request to the store: the awaited addDoc / getDocs / deleteDoc
Request(st, r, id, up) ==
  CASE r.op = "create" -> addDoc(st, r, id, up)
    [] r.op = "list"   -> getDocs(st, r, up)
    [] r.op = "delete" -> deleteDoc(st, r, up)

\* (mutant) a request the store fails is issued a second time
ServeRetry(st, r, id, up) ==
  LET first  == Request(st, r, id, up)
      second == Request(st, r, id, TRUE)
  IN  IF first.resp.phase = "ok"
      THEN [store |-> first.store, resp |-> [first.resp EXCEPT !.tries = @ + 1]]
      ELSE [store |-> second.store, resp |-> [second.resp EXCEPT !.tries = @ + 2]]

\* the call issues its request once and returns what the store answered;
\* up = the store is reachable for this request
Serve(st, r, id, up) ==
  LET out == Request(st, r, id, up)
  IN  [store |-> out.store, resp |-> [out.resp EXCEPT !.tries = @ + 1]]

\* ---- initial state -------------------------------------------------------
Init ==
  /\ store = << >>
  /\ usedIds = {}
  /\ serverClock = 0
  /\ api = NoCall
  /\ deleted = {}
  /\ user = NoUser
  /\ mounted = FALSE
  /\ entries = <<>>
  /\ loading = TRUE
  /\ deletingId = NoId
  /\ net = EmptyBag
  /\ content = <<>>
  /\ isSubmitting = FALSE
  /\ refreshTrigger = 0
  /\ created = NoId
  /\ authLoading = TRUE

\* ---- the store's clock advances ------------------------------------------
Tick ==
  /\ serverClock < MaxTime
  /\ serverClock' = serverClock + 1
  /\ UNCHANGED <<store, usedIds, api, deleted>>
  /\ UNCHANGED viewVars
  /\ UNCHANGED formVars
  /\ UNCHANGED authLoading

\* ---- a consumer of the repository API calls it ----------------------------
\* createEntry(userId, content) by principal p whose clock reads now
ApiCreateEntry(p, userId, text, now) ==
  /\ api.phase # "sent"
  /\ AutoIds(usedIds) # {}
  /\ api' = Req("create", p, userId, text, TimestampNow(now), NoId)
  /\ UNCHANGED <<store, usedIds, serverClock, deleted>>
  /\ UNCHANGED viewVars
  /\ UNCHANGED formVars
  /\ UNCHANGED authLoading

\* getEntriesForUser(userId) by principal p
ApiGetEntriesForUser(p, userId) ==
  /\ api.phase # "sent"
  /\ api' = Req("list", p, userId, NoContent, NoTs, NoId)
  /\ UNCHANGED <<store, usedIds, serverClock, deleted>>
  /\ UNCHANGED viewVars
  /\ UNCHANGED formVars
  /\ UNCHANGED authLoading

\* deleteEntry(entryId) by principal p
ApiDeleteEntry(p, entryId) ==
  /\ api.phase # "sent"
  /\ api' = Req("delete", p, NoUser, NoContent, NoTs, entryId)
  /\ UNCHANGED <<store, usedIds, serverClock, deleted>>
  /\ UNCHANGED viewVars
  /\ UNCHANGED formVars
  /\ UNCHANGED authLoading

\* the store answers the consumer's call and the call returns
ApiServe(id, up) ==
  /\ api.phase = "sent"
  /\ IF api.op = "create" THEN id \in AutoIds(usedIds) ELSE id = NoId
  /\ LET out == Serve(store, api, id, up)
     IN  /\ store' = out.store
         /\ api' = out.resp
         /\ usedIds' = IF api.op = "create" THEN usedIds \cup {id} ELSE usedIds
         /\ deleted' = IF api.op = "delete" /\ out.resp.phase = "ok"
                       THEN deleted \cup {api.entryId} ELSE deleted
  /\ UNCHANGED serverClock
  /\ UNCHANGED viewVars
  /\ UNCHANGED formVars
  /\ UNCHANGED authLoading

\* ---- EntryList -------------------------------------------------------------
\* what EntryList returns from its render
Render ==
  IF user = NoUser THEN "nothing"
  ELSE IF loading THEN "spinner"
  ELSE IF Len(entries) = 0 THEN "empty"
  ELSE "list"

InFlight == BagToSet(net)
Send(r) == net (+) SetToBag({r})
Settle(r) == net (-) SetToBag({r})

\* (mutant) loadEntries without its "if (!user)" branch
loadEntriesUngated(u, bag) ==
  /\ BagCardinality(bag) < MaxInFlight
  /\ net' = bag (+) SetToBag({Req("list", u, u, NoContent, NoTs, NoId)})
  /\ UNCHANGED <<entries, loading>>

\* loadEntries() as created by the render that saw user u; the awaited
\* getEntriesForUser(u.uid) joins the calls in flight (bag)
loadEntries(u, bag) ==
  IF u = NoUser
  THEN /\ entries' = <<>>
       /\ loading' = FALSE
       /\ net' = bag
  ELSE /\ BagCardinality(bag) < MaxInFlight
       /\ net' = bag (+) SetToBag({Req("list", u, u, NoContent, NoTs, NoId)})
       /\ UNCHANGED <<entries, loading>>

\* first render of EntryList: useEffect runs loadEntries
Mount ==
  /\ ~mounted
  /\ mounted' = TRUE
  /\ loadEntries(user, net)
  /\ UNCHANGED <<user, deletingId>>
  /\ UNCHANGED repoVars
  /\ UNCHANGED formVars
  /\ UNCHANGED authLoading

\* (mutant) the provider stays unresolved while nobody is signed in
onAuthStateChangedAnonymousPending(u) ==
  /\ user' = u
  /\ authLoading' = (u = NoUser)

\* AuthProvider's subscription callback: the identity provider reports u
onAuthStateChanged(u) ==
  /\ user' = u
  /\ authLoading' = FALSE

\* the auth context takes a reported auth state; when it hands EntryList
\* another user, loadEntries is rebuilt (useCallback [user]) and the effect
\* runs it
AuthStateChanged(u) ==
  /\ u # user \/ authLoading
  /\ onAuthStateChanged(u)
  /\ IF mounted /\ u # user THEN loadEntries(u, net)
                            ELSE UNCHANGED <<entries, loading, net>>
  /\ UNCHANGED <<mounted, deletingId>>
  /\ UNCHANGED repoVars
  /\ UNCHANGED formVars

\* the store answers the in-flight request r
NetServe(r, id, up) ==
  /\ r \in InFlight /\ r.phase = "sent"
  /\ IF r.op = "create" THEN id \in AutoIds(usedIds) ELSE id = NoId
  /\ LET out == Serve(store, r, id, up)
     IN  /\ store' = out.store
         /\ net' = Settle(r) (+) SetToBag({out.resp})
         /\ usedIds' = IF r.op = "create" THEN usedIds \cup {id} ELSE usedIds
         /\ deleted' = IF r.op = "delete" /\ out.resp.phase = "ok"
                       THEN deleted \cup {r.entryId} ELSE deleted
  /\ UNCHANGED <<serverClock, api>>
  /\ UNCHANGED <<user, mounted, entries, loading, deletingId>>
  /\ UNCHANGED formVars
  /\ UNCHANGED authLoading

\* (mutant) a response is dropped unless it is for the user now signed in
LoadEntriesResolvedCurrentOnly(r) ==
  /\ r \in InFlight /\ r.op = "list" /\ r.phase = "ok"
  /\ entries' = IF r.userId = user THEN r.result ELSE entries
  /\ loading' = FALSE
  /\ net' = Settle(r)
  /\ UNCHANGED <<user, mounted, deletingId>>
  /\ UNCHANGED repoVars
  /\ UNCHANGED formVars
  /\ UNCHANGED authLoading

\* (mutant) the fetched entries are added to the ones displayed
LoadEntriesResolvedAppends(r) ==
  /\ r \in InFlight /\ r.op = "list" /\ r.phase = "ok"
  /\ entries' = entries \o r.result
  /\ loading' = FALSE
  /\ net' = Settle(r)
  /\ UNCHANGED <<user, mounted, deletingId>>
  /\ UNCHANGED repoVars
  /\ UNCHANGED formVars
  /\ UNCHANGED authLoading

\* loadEntries: await getEntriesForUser resolved
LoadEntriesResolved(r) ==
  /\ r \in InFlight /\ r.op = "list" /\ r.phase = "ok"
  /\ entries' = r.result
  /\ loading' = FALSE
  /\ net' = Settle(r)
  /\ UNCHANGED <<user, mounted, deletingId>>
  /\ UNCHANGED repoVars
  /\ UNCHANGED formVars
  /\ UNCHANGED authLoading

\* (mutant) the catch block clears the list
LoadEntriesRejectedClears(r) ==
  /\ r \in InFlight /\ r.op = "list" /\ r.phase = "err"
  /\ entries' = <<>>
  /\ loading' = FALSE
  /\ net' = Settle(r)
  /\ UNCHANGED <<user, mounted, deletingId>>
  /\ UNCHANGED repoVars
  /\ UNCHANGED formVars
  /\ UNCHANGED authLoading

\* loadEntries: await getEntriesForUser rejected
LoadEntriesRejected(r) ==
  /\ r \in InFlight /\ r.op = "list" /\ r.phase = "err"
  /\ loading' = FALSE
  /\ net' = Settle(r)
  /\ UNCHANGED <<user, mounted, entries, deletingId>>
  /\ UNCHANGED repoVars
  /\ UNCHANGED formVars
  /\ UNCHANGED authLoading

\* the ids EntryList shows a delete button for
Displayed == { entries[i].id : i \in 1..Len(entries) }

\* handleDelete(entryId): click on an enabled delete button
handleDelete(entryId) ==
  /\ mounted /\ Render = "list"
  /\ entryId \in Displayed
  /\ deletingId # entryId
  /\ BagCardinality(net) < MaxInFlight
  /\ deletingId' = entryId
  /\ net' = Send(Req("delete", user, NoUser, NoContent, NoTs, entryId))
  /\ UNCHANGED <<user, mounted, entries, loading>>
  /\ UNCHANGED repoVars
  /\ UNCHANGED formVars
  /\ UNCHANGED authLoading

\* prev.filter((e) => e.id !== entryId)
filterOut(prev, entryId) == SelectSeq(prev, LAMBDA e : e.id # entryId)

\* (mutant) the list is fetched again instead of being filtered
HandleDeleteResolvedReloads(r) ==
  /\ r \in InFlight /\ r.op = "delete" /\ r.phase = "ok"
  /\ deletingId' = NoId
  /\ net' = Settle(r) (+) SetToBag({Req("list", user, user, NoContent, NoTs, NoId)})
  /\ UNCHANGED <<user, mounted, entries, loading>>
  /\ UNCHANGED repoVars
  /\ UNCHANGED formVars
  /\ UNCHANGED authLoading

\* handleDelete: await deleteEntry resolved
HandleDeleteResolved(r) ==
  /\ r \in InFlight /\ r.op = "delete" /\ r.phase = "ok"
  /\ entries' = filterOut(entries, r.entryId)
  /\ deletingId' = NoId
  /\ net' = Settle(r)
  /\ UNCHANGED <<user, mounted, loading>>
  /\ UNCHANGED repoVars
  /\ UNCHANGED formVars
  /\ UNCHANGED authLoading

\* (mutant) the entry is taken off the list whatever the store answered
HandleDeleteRejectedRemoves(r) ==
  /\ r \in InFlight /\ r.op = "delete" /\ r.phase = "err"
  /\ entries' = filterOut(entries, r.entryId)
  /\ deletingId' = NoId
  /\ net' = Settle(r)
  /\ UNCHANGED <<user, mounted, loading>>
  /\ UNCHANGED repoVars
  /\ UNCHANGED formVars
  /\ UNCHANGED authLoading

\* handleDelete: await deleteEntry rejected
HandleDeleteRejected(r) ==
  /\ r \in InFlight /\ r.op = "delete" /\ r.phase = "err"
  /\ deletingId' = NoId
  /\ net' = Settle(r)
  /\ UNCHANGED <<user, mounted, entries, loading>>
  /\ UNCHANGED repoVars
  /\ UNCHANGED formVars
  /\ UNCHANGED authLoading

Next ==
  \/ Tick
  \/ \E p \in Principals, u \in Users, c \in Contents, now \in Times :
       ApiCreateEntry(p, u, c, now)
  \/ \E p \in Principals, u \in Users : ApiGetEntriesForUser(p, u)
  \/ \E p \in Principals, i \in Ids : ApiDeleteEntry(p, i)
  \/ \E i \in Ids \cup {NoId}, up \in BOOLEAN : ApiServe(i, up)

Spec == Init /\ [][Next]_vars

\* ==== properties ============================================================
EntryIds(list) == { list[i].id : i \in 1..Len(list) }

\* the consumer's call was answered in this step
ApiAnswered == api.phase = "sent" /\ api'.phase # "sent"

\* C1: for every ownerId and every reachable collection, getEntriesForUser
\* returns only entries whose stored userId is the argument; so does every
\* list call that returned
C1_OnlyOwnEntries ==
  /\ \A u \in Users :
       LET list == getEntriesForUser(store, u)
       IN  \A i \in 1..Len(list) :
             /\ list[i].userId = u
             /\ list[i].id \in DOMAIN store
             /\ store[list[i].id].userId = u
  /\ (api.op = "list" /\ api.phase = "ok") =>
       \A i \in 1..Len(api.result) : api.result[i].userId = api.userId

C1_Witness ==
  /\ api.op = "list" /\ api.phase = "ok" /\ Len(api.result) >= 1
  /\ \E i \in DOMAIN store : store[i].userId # api.userId

\* C2: the sequence getEntriesForUser returns is in non-increasing createdAt
\* order, most recent first
C2_NewestFirst ==
  /\ \A u \in Users :
       LET list == getEntriesForUser(store, u)
       IN  \A i \in 1..(Len(list) - 1) : list[i].createdAt >= list[i + 1].createdAt
  /\ (api.op = "list" /\ api.phase = "ok") =>
       \A i \in 1..(Len(api.result) - 1) :
         api.result[i].createdAt >= api.result[i + 1].createdAt

C2_Witness ==
  /\ api.op = "list" /\ api.phase = "ok" /\ Len(api.result) >= 2
  /\ api.result[1].createdAt > api.result[2].createdAt
  /\ api.result[1].id < api.result[2].id

\* C3: no principal obtains through a list call, or removes through a delete
\* call, an entry of another owner; a delete of another owner's entry is
\* rejected and the entry stays stored
C3_OwnerOnly ==
  /\ [] ( (api.op = "list" /\ api.phase = "ok") =>
            /\ api.auth # NoUser
            /\ \A i \in 1..Len(api.result) : api.result[i].userId = api.auth )
  /\ [][ /\ \A id \in DOMAIN store \ DOMAIN store' :
              /\ api.op = "delete" /\ api.entryId = id
              /\ api.auth = store[id].userId
         /\ ( /\ ApiAnswered /\ api.op = "delete"
              /\ api.entryId \in DOMAIN store
              /\ store[api.entryId].userId # api.auth )
            => /\ api'.phase = "err"
               /\ api.entryId \in DOMAIN store'
               /\ store'[api.entryId] = store[api.entryId] ]_vars

C3_Witness ==
  /\ api.op = "delete" /\ api.phase = "err" /\ api.auth # NoUser
  /\ api.entryId \in DOMAIN store
  /\ store[api.entryId].userId # api.auth

\* C4: every stored createdAt is the store's clock at the write, not a value
\* the client supplied
C4_ServerAssignedCreatedAt ==
  [][ \A id \in DOMAIN store' \ DOMAIN store :
        toDate(store'[id].createdAt) = serverClock ]_vars

\* C5: a successful create(ownerId, content) followed immediately by
\* listByOwner(ownerId) shows exactly one entry that was not there before,
\* with that content and owner, at the first position
C5_NewEntryFirst ==
  [][ \A id \in DOMAIN store' \ DOMAIN store :
        LET before == getEntriesForUser(store, api.userId)
            after  == getEntriesForUser(store', api.userId)
            new    == { i \in 1..Len(after) :
                          \A j \in 1..Len(before) : before[j] # after[i] }
        IN  /\ new = {1}
            /\ after[1].id = id
            /\ after[1].content = api.content
            /\ after[1].userId = api.userId ]_vars

\* C6: after a successful deleteEntry(id) no later getEntriesForUser result
\* holds an entry with that id, also after later creates
C6_DeletedStaysGone ==
  /\ \A id \in deleted, u \in Users :
       id \notin EntryIds(getEntriesForUser(store, u))
  /\ (api.op = "list" /\ api.phase = "ok") =>
       deleted \cap EntryIds(api.result) = {}

C6_Witness ==
  /\ deleted # {}
  /\ api.op = "list" /\ api.phase = "ok" /\ Len(api.result) >= 1
  /\ \E id \in deleted : id < api.result[1].id

\* C7: a create call that is rejected leaves the collection as it was: every
\* owner's list is the same before and after, and no id is returned
C7_FailedCreateNoEffect ==
  [][ (ApiAnswered /\ api.op = "create" /\ api'.phase = "err") =>
        /\ store' = store
        /\ api'.id = NoId
        /\ \A u \in Users :
             getEntriesForUser(store', u) = getEntriesForUser(store, u) ]_vars

C7_Witness ==
  /\ api.op = "create" /\ api.phase = "err"
  /\ store # << >>

\* C8: a delete call that is rejected leaves its target stored, and the
\* target stays in its owner's list until a delete of it succeeds
C8_FailedDeleteKeepsEntry ==
  [][ /\ ( /\ ApiAnswered /\ api.op = "delete" /\ api'.phase = "err"
           /\ api.entryId \in DOMAIN store )
         => /\ api.entryId \in DOMAIN store'
            /\ api.entryId \in
                 EntryIds(getEntriesForUser(store', store[api.entryId].userId))
      /\ \A id \in DOMAIN store \ DOMAIN store' :
           /\ ApiAnswered /\ api.op = "delete" /\ api.entryId = id
           /\ api'.phase = "ok" ]_vars

C8_Witness ==
  /\ api.op = "delete" /\ api.phase = "err"
  /\ api.entryId \in DOMAIN store

\* C9: stored entries are immutable: a record keeps its userId, content and
\* createdAt while it exists, and a step changes the collection only by
\* adding one new record or removing one existing record
C9_Immutable ==
  [][ /\ \A id \in DOMAIN store \cap DOMAIN store' : store'[id] = store[id]
      /\ \/ store' = store
         \/ \E id \in Ids \ DOMAIN store : DOMAIN store' = DOMAIN store \cup {id}
         \/ \E id \in DOMAIN store : DOMAIN store' = DOMAIN store \ {id} ]_vars

C9_Witness ==
  /\ Cardinality(DOMAIN store) >= 1
  /\ deleted # {}
  /\ Cardinality(usedIds) = MaxIds

\* what the store does with request r when it is reachable
StoreAccepts(st, r) ==
  CASE r.op = "create" ->
         allowCreate(r.auth, [userId |-> r.userId, content |-> r.content,
                              createdAt |-> r.createdAt])
    [] r.op = "list"   -> allowRead(r.auth, r.userId)
    [] r.op = "delete" -> allowDelete(st, r.auth, r.entryId)

\* C11: repository operations do not retry: a call that returned has issued
\* exactly one request to the store, and it resolves exactly when that one
\* request succeeds (the store is reachable and admits it), else it rejects
C11_NoRetry ==
  /\ [] ( api.phase \in {"ok", "err"} => api.tries = 1 )
  /\ [][ \A id \in Ids \cup {NoId}, up \in BOOLEAN :
           ApiServe(id, up) =>
             /\ api'.phase \in {"ok", "err"}
             /\ api'.phase = "ok" <=> (up /\ StoreAccepts(store, api)) ]_vars

C11_Witness ==
  /\ api.phase = "err" /\ api.tries = 1
  /\ StoreAccepts(store, api)

\* ---- EntryList over a collection that already holds entries -------------
\* a record createEntry has written earlier under document id i for user u
FirestoreEntries(i, u) ==
  [userId |-> u, content |-> <<"a">>,
   createdAt |-> TimestampNow(i % (MaxTime + 1))]

Collections ==
  UNION { { [i \in D |-> FirestoreEntries(i, owner[i])] : owner \in [D -> Users] } :
          D \in { 1..k : k \in 0..MaxIds } }

ViewInit ==
  /\ store \in Collections
  /\ usedIds = DOMAIN store
  /\ serverClock = 0
  /\ api = NoCall
  /\ deleted = {}
  /\ user = NoUser
  /\ mounted = FALSE
  /\ entries = <<>>
  /\ loading = TRUE
  /\ deletingId = NoId
  /\ net = EmptyBag
  /\ content = <<>>
  /\ isSubmitting = FALSE
  /\ refreshTrigger = 0
  /\ created = NoId
  /\ authLoading = TRUE

ViewNext ==
  \/ Mount
  \/ \E u \in Principals : AuthStateChanged(u)
  \/ \E r \in InFlight, i \in Ids \cup {NoId}, up \in BOOLEAN : NetServe(r, i, up)
  \/ \E r \in InFlight : LoadEntriesResolved(r)
  \/ \E r \in InFlight : LoadEntriesRejected(r)
  \/ \E i \in Ids : handleDelete(i)
  \/ \E r \in InFlight : HandleDeleteResolved(r)
  \/ \E r \in InFlight : HandleDeleteRejected(r)

ViewSpec == ViewInit /\ [][ViewNext]_vars

\* C10: a getEntriesForUser the store answers for an owner with no stored
\* entries resolves with the empty sequence, it is not rejected; EntryList
\* then shows the empty state
C10_EmptyIsNotAnError ==
  [][ \A r \in InFlight :
        /\ ( /\ r.op = "list" /\ r.phase = "sent"
             /\ getEntriesForUser(store, r.userId) = <<>>
             /\ NetServe(r, NoId, TRUE) )
           => LET ok == [r EXCEPT !.phase = "ok", !.tries = 1, !.result = <<>>]
              IN  CopiesIn(ok, net') = CopiesIn(ok, net) + 1
        /\ ( /\ LoadEntriesResolved(r) /\ r.result = <<>>
             /\ user # NoUser )
           => Render' = "empty" ]_vars

C10_Witness ==
  /\ mounted /\ user # NoUser /\ Render = "empty" /\ net = EmptyBag
  /\ getEntriesForUser(store, user) = <<>>
  /\ \E i \in DOMAIN store : store[i].userId # user

\* the awaited call r is issued / settles in this step
Issued(r) == CopiesIn(r, net') > CopiesIn(r, net)
Settled(r) == CopiesIn(r, net') < CopiesIn(r, net)

\* C13: a failed delete leaves the entry visible: neither the click nor the
\* rejection of deleteEntry(id) changes the displayed entries
C13_FailedDeleteKeepsDisplay ==
  [][ /\ \A r \in BagToSet(net') :
           (r.op = "delete" /\ r.phase = "sent" /\ Issued(r)) =>
             /\ entries' = entries
             /\ r.entryId \in Displayed
      /\ \A r \in InFlight :
           (r.op = "delete" /\ r.phase = "err" /\ Settled(r)) =>
             /\ entries' = entries
             /\ deletingId' = NoId ]_vars

C13_Witness ==
  \E r \in InFlight :
    /\ r.op = "delete" /\ r.phase = "err"
    /\ r.entryId \in Displayed
    /\ Render = "list"

\* C14: a rejected getEntriesForUser leaves the displayed entries as they
\* were when the load was issued, and EntryList leaves the loading state
C14_FailedLoadKeepsDisplay ==
  [][ /\ \A r \in BagToSet(net') :
           (r.op = "list" /\ r.phase = "sent" /\ Issued(r)) => entries' = entries
      /\ \A r \in InFlight :
           (r.op = "list" /\ r.phase = "err" /\ Settled(r)) =>
             /\ entries' = entries
             /\ loading' = FALSE ]_vars

C14_Witness ==
  /\ entries # <<>>
  /\ \E r \in InFlight : r.op = "list" /\ r.phase = "err"

\* C18: list calls are not deduplicated and the response that resolves last
\* wins: every resolved response replaces the displayed entries by its own
\* result, whatever was issued or displayed in between
C18_LastResponseWins ==
  [][ \A r \in InFlight :
        (r.op = "list" /\ r.phase = "ok" /\ Settled(r)) =>
          entries' = r.result ]_vars

C18_Witness ==
  \E r1 \in InFlight, r2 \in InFlight :
    /\ r1.op = "list" /\ r1.phase = "ok"
    /\ r2.op = "list" /\ r2.phase = "ok"
    /\ r1.result # r2.result

\* C19: a delete of entry e, interleaved with list calls and other deletes,
\* changes neither the presence nor the fields nor the relative order of
\* any other entry, in the collection and in what a list returns
C19_DeleteFrame ==
  [][ \A e \in DOMAIN store \ DOMAIN store' :
        /\ DOMAIN store' = DOMAIN store \ {e}
        /\ \A i \in DOMAIN store' : store'[i] = store[i]
        /\ \A u \in Users :
             getEntriesForUser(store', u) =
               filterOut(getEntriesForUser(store, u), e) ]_vars

C19_Witness ==
  /\ \E r \in InFlight : r.op = "delete" /\ r.phase = "ok"
  /\ \E r \in InFlight : r.op = "list"
  /\ store # << >>

\* C20: while a list call of EntryList for the signed-in user
\* is pending, loading is true
C20_LoadingWhilePending ==
  ( /\ mounted /\ user # NoUser
    /\ \E r \in InFlight : r.op = "list" /\ r.userId = user )
  => loading

\* ---------------------------------------------------------------------
\* EntryForm (the composer) and the Home page that joins it to EntryList

Whitespace == {" "}

\* String.prototype.trim on a sequence of characters
RECURSIVE trimStart(_)
trimStart(t) ==
  IF t # <<>> /\ Head(t) \in Whitespace THEN trimStart(Tail(t)) ELSE t

RECURSIVE trimEnd(_)
trimEnd(t) ==
  IF t # <<>> /\ t[Len(t)] \in Whitespace
  THEN trimEnd(SubSeq(t, 1, Len(t) - 1)) ELSE t

trim(t) == trimEnd(trimStart(t))

\* what the user may have in the textarea
Texts == { <<>>, <<" ">>, <<"a">>, <<" ", "a", " ">> }

\* (mutant) the button is disabled for empty text only
SubmitDisabledWhenEmpty == trim(content) = <<>>

\* the submit button's disabled attribute
SubmitDisabled == trim(content) = <<>> \/ isSubmitting

\* onChange of the textarea, which is disabled while submitting
Type(text) ==
  /\ user # NoUser
  /\ ~isSubmitting
  /\ text # content
  /\ content' = text
  /\ UNCHANGED <<isSubmitting, refreshTrigger, created>>
  /\ UNCHANGED viewVars
  /\ UNCHANGED repoVars
  /\ UNCHANGED authLoading

\* (mutant) handleSubmit passes the textarea's text as typed
handleSubmitUntrimmed(now) ==
  /\ user # NoUser
  /\ ~SubmitDisabled
  /\ ~(user = NoUser \/ trim(content) = <<>>)
  /\ AutoIds(usedIds) # {}
  /\ BagCardinality(net) < MaxInFlight
  /\ isSubmitting' = TRUE
  /\ net' = Send(Req("create", user, user, content, TimestampNow(now), NoId))
  /\ UNCHANGED <<content, refreshTrigger, created>>
  /\ UNCHANGED <<user, mounted, entries, loading, deletingId>>
  /\ UNCHANGED repoVars
  /\ UNCHANGED authLoading

\* handleSubmit up to its await: createEntry(user.uid, content.trim())
\* is issued by a client whose clock reads now
handleSubmit(now) ==
  /\ user # NoUser
  /\ ~SubmitDisabled
  /\ ~(user = NoUser \/ trim(content) = <<>>)
  /\ AutoIds(usedIds) # {}
  /\ BagCardinality(net) < MaxInFlight
  /\ isSubmitting' = TRUE
  /\ net' = Send(Req("create", user, user, trim(content), TimestampNow(now), NoId))
  /\ UNCHANGED <<content, refreshTrigger, created>>
  /\ UNCHANGED <<user, mounted, entries, loading, deletingId>>
  /\ UNCHANGED repoVars
  /\ UNCHANGED authLoading

\* (mutant) the success path clears the textarea but never calls
\* onEntryCreated
HandleSubmitResolvedSilent(r) ==
  /\ r \in InFlight /\ r.op = "create" /\ r.phase = "ok"
  /\ content' = <<>>
  /\ isSubmitting' = FALSE
  /\ created' = r.id
  /\ net' = Settle(r)
  /\ UNCHANGED <<refreshTrigger, entries, loading>>
  /\ UNCHANGED <<user, mounted, deletingId>>
  /\ UNCHANGED repoVars
  /\ UNCHANGED authLoading

\* handleSubmit after createEntry resolved: the textarea is cleared and
\* onEntryCreated bumps refreshTrigger, which reruns EntryList's effect
HandleSubmitResolved(r) ==
  /\ r \in InFlight /\ r.op = "create" /\ r.phase = "ok"
  /\ content' = <<>>
  /\ refreshTrigger' = refreshTrigger + 1
  /\ isSubmitting' = FALSE
  /\ created' = r.id
  /\ IF mounted
     THEN loadEntries(user, Settle(r))
     ELSE /\ net' = Settle(r)
          /\ UNCHANGED <<entries, loading>>
  /\ UNCHANGED <<user, mounted, deletingId>>
  /\ UNCHANGED repoVars
  /\ UNCHANGED authLoading

\* (mutant) isSubmitting is reset on the success path only
HandleSubmitRejectedStaysBusy(r) ==
  /\ r \in InFlight /\ r.op = "create" /\ r.phase = "err"
  /\ net' = Settle(r)
  /\ UNCHANGED <<content, isSubmitting, refreshTrigger, created>>
  /\ UNCHANGED <<user, mounted, entries, loading, deletingId>>
  /\ UNCHANGED repoVars
  /\ UNCHANGED authLoading

\* (mutant) the rejection clears the textarea as a success does
HandleSubmitRejectedClears(r) ==
  /\ r \in InFlight /\ r.op = "create" /\ r.phase = "err"
  /\ isSubmitting' = FALSE
  /\ content' = <<>>
  /\ net' = Settle(r)
  /\ UNCHANGED <<refreshTrigger, created>>
  /\ UNCHANGED <<user, mounted, entries, loading, deletingId>>
  /\ UNCHANGED repoVars
  /\ UNCHANGED authLoading

\* handleSubmit after createEntry rejected: only the finally block runs
HandleSubmitRejected(r) ==
  /\ r \in InFlight /\ r.op = "create" /\ r.phase = "err"
  /\ isSubmitting' = FALSE
  /\ net' = Settle(r)
  /\ UNCHANGED <<content, refreshTrigger, created>>
  /\ UNCHANGED <<user, mounted, entries, loading, deletingId>>
  /\ UNCHANGED repoVars
  /\ UNCHANGED authLoading

\* EntryForm rendered on its own
FormNext ==
  \/ \E u \in Principals : AuthStateChanged(u)
  \/ \E t \in Texts : Type(t)
  \/ \E now \in Times : handleSubmit(now)
  \/ \E r \in InFlight, i \in Ids, up \in BOOLEAN : NetServe(r, i, up)
  \/ \E r \in InFlight : HandleSubmitResolved(r)
  \/ \E r \in InFlight : HandleSubmitRejected(r)

FormSpec == Init /\ [][FormNext]_vars

\* Home after its first render and effects: EntryForm is untouched and
\* EntryList's effect has run loadEntries for the user of that render
AppInit ==
  /\ store = << >>
  /\ usedIds = {}
  /\ serverClock = 0
  /\ api = NoCall
  /\ deleted = {}
  /\ user \in Principals
  /\ mounted = TRUE
  /\ entries = <<>>
  /\ loading = (user # NoUser)
  /\ deletingId = NoId
  /\ net = IF user = NoUser THEN EmptyBag
           ELSE SetToBag({Req("list", user, user, NoContent, NoTs, NoId)})
  /\ content = <<>>
  /\ isSubmitting = FALSE
  /\ refreshTrigger = 0
  /\ created = NoId
  /\ authLoading = (user = NoUser)

AppNext ==
  \/ \E u \in Principals : AuthStateChanged(u)
  \/ \E t \in Texts : Type(t)
  \/ \E now \in Times : handleSubmit(now)
  \/ \E r \in InFlight, i \in Ids \cup {NoId}, up \in BOOLEAN : NetServe(r, i, up)
  \/ \E r \in InFlight : HandleSubmitResolved(r)
  \/ \E r \in InFlight : HandleSubmitRejected(r)
  \/ \E r \in InFlight : LoadEntriesResolved(r)
  \/ \E r \in InFlight : LoadEntriesRejected(r)
  \/ \E i \in Ids : handleDelete(i)
  \/ \E r \in InFlight : HandleDeleteResolved(r)
  \/ \E r \in InFlight : HandleDeleteRejected(r)

AppSpec == AppInit /\ [][AppNext]_vars

\* C12: a failed create leaves the composed text intact for resubmission:
\* when createEntry rejects, content is still the text that was typed and
\* submitted, onEntryCreated is not called (refreshTrigger keeps its value),
\* isSubmitting is false again and the submit button is enabled
C12_FailedCreateKeepsText ==
  [][ \A r \in InFlight :
        (r.op = "create" /\ r.phase = "err" /\ Settled(r)) =>
          /\ content' = content
          /\ trim(content') = r.content
          /\ refreshTrigger' = refreshTrigger
          /\ ~isSubmitting'
          /\ ~SubmitDisabled' ]_vars

C12_Witness ==
  /\ usedIds # {} /\ store = << >> /\ net = EmptyBag
  /\ user # NoUser
  /\ ~isSubmitting /\ content = <<" ", "a", " ">> /\ refreshTrigger = 0

\* C15: every createEntry call of EntryForm carries the typed text with its
\* surrounding whitespace removed, never empty, and so does every entry the
\* composer has stored
C15_TrimmedNonEmpty ==
  /\ \A r \in InFlight :
       r.op = "create" =>
         /\ r.content # <<>>
         /\ r.content = trim(content)
         /\ Head(r.content) \notin Whitespace
         /\ r.content[Len(r.content)] \notin Whitespace
  /\ \A i \in DOMAIN store :
       /\ store[i].content # <<>>
       /\ trim(store[i].content) = store[i].content

C15_Witness ==
  \E r \in InFlight :
    /\ r.op = "create" /\ r.phase = "ok"
    /\ content = <<" ", "a", " ">>
    /\ store[r.id].content = <<"a">>

\* C16: the auth context gates the store calls: a create, list or delete
\* call is issued by EntryForm or EntryList only with a user signed in, it
\* is authenticated as that user, and a create or list call carries that
\* user's uid
C16_AuthGatesCalls ==
  [][ \A r \in BagToSet(net') :
        (r.phase = "sent" /\ Issued(r)) =>
          /\ user' # NoUser
          /\ r.auth = user'
          /\ r.op \in {"create", "list"} => r.userId = user' ]_vars

C16_Witness ==
  /\ user # NoUser
  /\ \E r1 \in InFlight, r2 \in InFlight :
       /\ r1.op = "create" /\ r1.phase = "sent" /\ r1.userId = user
       /\ r2.op = "list" /\ r2.phase = "sent" /\ r2.userId = user
  /\ \E i \in DOMAIN store : store[i].userId # user

\* C17: after a successful create from the composer, once the refreshed
\* list has resolved and nothing is in flight any more, EntryList shows the
\* newly created entry at the first position.  The response taken here is
\* the current list of the signed-in user, it holds the new entry, and no
\* two stored entries share a createdAt
C17_NewEntryOnTop ==
  [][ \A r \in InFlight :
        ( /\ r.op = "list" /\ r.phase = "ok" /\ Settled(r)
          /\ net' = EmptyBag
          /\ r.result = getEntriesForUser(store, user)
          /\ created \in EntryIds(r.result)
          /\ \A i, j \in DOMAIN store :
               i # j => store[i].createdAt # store[j].createdAt )
        => entries'[1].id = created ]_vars

\* C21: a successful createEntry returns the id the store assigned to the
\* new record: an id no entry was ever stored under before, under which the
\* collection now holds the record with the given userId and content, every
\* other record being left as it was
C21_CreateReturnsNewId ==
  /\ [] ( DOMAIN store \cup deleted \subseteq usedIds )
  /\ [][ (ApiAnswered /\ api.op = "create" /\ api'.phase = "ok") =>
           /\ api'.id \in Ids
           /\ api'.id \notin usedIds
           /\ DOMAIN store' = DOMAIN store \cup {api'.id}
           /\ store'[api'.id].userId = api.userId
           /\ store'[api'.id].content = api.content
           /\ \A i \in DOMAIN store : store'[i] = store[i] ]_vars

C21_Witness ==
  /\ api.op = "create" /\ api.phase = "ok"
  /\ api.id \in DOMAIN store
  /\ deleted # {} /\ api.id \notin deleted

\* C22: the auth context starts unresolved (loading, no user); once the
\* identity provider has reported an auth state loading is false for good,
\* and the exposed user is the value reported last: every report installs
\* its value, and nothing else changes the user
C22_AuthContextFollowsReports ==
  /\ (authLoading = TRUE /\ user = NoUser)
  /\ [] ( authLoading => user = NoUser )
  /\ [][ /\ \A u \in Principals :
              AuthStateChanged(u) => (user' = u /\ ~authLoading')
         /\ (user' # user \/ authLoading' # authLoading) =>
              \E u \in Principals : AuthStateChanged(u)
         /\ ~authLoading => ~authLoading' ]_vars

C22_Witness ==
  /\ ~authLoading /\ user = NoUser
  /\ \E i \in DOMAIN store : store[i].userId \in Users

\* C23: whenever EntryList renders entries to a signed-in user, every
\* rendered entry's userId is that user's uid
C23_RenderedEntriesAreOwn ==
  (mounted /\ Render = "list") =>
    \A i \in 1..Len(entries) : entries[i].userId = user

\* C24: each successful submit of the composer clears the composed text and
\* triggers exactly one reload of the entry list: refreshTrigger goes up by
\* one and one getEntriesForUser call for the current user joins the calls
\* in flight (none when nobody is signed in any more); a rejected submit
\* triggers none, and nothing else moves refreshTrigger
C24_OneReloadPerCreate ==
  [][ /\ \A r \in InFlight :
           (r.op = "create" /\ r.phase = "ok" /\ Settled(r)) =>
             /\ content' = <<>>
             /\ refreshTrigger' = refreshTrigger + 1
             /\ net' = IF user = NoUser THEN Settle(r)
                       ELSE Settle(r) (+)
                            SetToBag({Req("list", user, user, NoContent, NoTs, NoId)})
      /\ \A r \in InFlight :
           (r.op = "create" /\ r.phase = "err" /\ Settled(r)) =>
             /\ refreshTrigger' = refreshTrigger
             /\ net' = Settle(r)
      /\ refreshTrigger' # refreshTrigger =>
           \E r \in InFlight : r.op = "create" /\ r.phase = "ok" /\ Settled(r) ]_vars

C24_Witness ==
  /\ refreshTrigger = 1 /\ content = <<>> /\ user # NoUser
  /\ usedIds = Ids /\ Cardinality(DOMAIN store) = 1
  /\ BagToSet(net) = {Req("list", user, user, NoContent, NoTs, NoId)}
  /\ CopiesIn(Req("list", user, user, NoContent, NoTs, NoId), net) = 1

\* C25: a successful deleteEntry(id) in EntryList removes exactly the entry
\* with that id from the displayed list: the entries before it keep their
\* place, the entries after it move up by one, each unchanged, and no store
\* call is issued for the removal
C25_DeleteRemovesExactlyOne ==
  [][ \A r \in InFlight :
        (r.op = "delete" /\ r.phase = "ok" /\ Settled(r)) =>
          LET K == { i \in 1..Len(entries) : entries[i].id = r.entryId }
          IN  /\ net' = Settle(r)
              /\ loading' = loading
              /\ Cardinality(K) <= 1
              /\ K = {} => entries' = entries
              /\ \A k \in K :
                   /\ Len(entries') = Len(entries) - 1
                   /\ \A i \in 1..Len(entries') :
                        entries'[i] = IF i < k THEN entries[i] ELSE entries[i + 1] ]_vars

C25_Witness ==
  /\ mounted /\ Render = "list" /\ net = EmptyBag
  /\ deleted # {} /\ deleted \cap Displayed = {}
  /\ Displayed = DOMAIN store

\* C26: once a deleteEntry(id) of EntryList has succeeded and its
\* continuation has taken the entry off the displayed list, the entry is
\* never displayed again
C26_RemovedStaysRemoved ==
  [][ \A id \in deleted :
        ( /\ id \notin Displayed
          /\ \A r \in InFlight : ~(r.op = "delete" /\ r.entryId = id) )
        => id \notin { entries'[i].id : i \in 1..Len(entries') } ]_vars

\* C27: EntryList never has two deleteEntry calls for the same entry
\* outstanding at once
C27_OneDeletePerEntry ==
  \A id \in Ids :
    LET dels == { r \in InFlight : r.op = "delete" /\ r.entryId = id }
    IN  /\ Cardinality(dels) <= 1
        /\ \A r \in dels : CopiesIn(r, net) = 1

\* C28: EntryForm never has two createEntry calls outstanding: isSubmitting
\* is true exactly while one is, and while it is true no submit is accepted
C28_OneCreateInFlight ==
  /\ [] ( LET creates == { r \in InFlight : r.op = "create" }
          IN  /\ Cardinality(creates) <= 1
              /\ \A r \in creates : CopiesIn(r, net) = 1
              /\ isSubmitting <=> creates # {} )
  /\ [][ isSubmitting =>
           \A r \in BagToSet(net') :
             ~(r.op = "create" /\ r.phase = "sent" /\ Issued(r)) ]_vars

C28_Witness ==
  /\ isSubmitting /\ user # NoUser /\ trim(content) # <<>>
  /\ AutoIds(usedIds) # {} /\ BagCardinality(net) < MaxInFlight
  /\ \E r \in InFlight : r.op = "create" /\ r.phase = "ok"

\* ---- one session on the Home page: the store answers, continuations run ---
\* the store answers every createEntry / deleteEntry request
ServeCreate ==
  \E r \in InFlight, i \in Ids, up \in BOOLEAN :
    r.op = "create" /\ NetServe(r, i, up)

ServeDelete ==
  \E r \in InFlight, up \in BOOLEAN :
    r.op = "delete" /\ NetServe(r, NoId, up)

\* the event loop runs the continuation of a settled await
SettleCreate ==
  \E r \in InFlight : HandleSubmitResolved(r) \/ HandleSubmitRejected(r)

SettleDelete ==
  \E r \in InFlight : HandleDeleteResolved(r) \/ HandleDeleteRejected(r)

\* Home from its first render until the user has signed out
SessionNext ==
  \/ AuthStateChanged(NoUser)
  \/ \E t \in Texts : Type(t)
  \/ \E now \in Times : handleSubmit(now)
  \/ \E r \in InFlight, i \in Ids \cup {NoId}, up \in BOOLEAN : NetServe(r, i, up)
  \/ \E r \in InFlight : HandleSubmitResolved(r)
  \/ \E r \in InFlight : HandleSubmitRejected(r)
  \/ \E r \in InFlight : LoadEntriesResolved(r)
  \/ \E r \in InFlight : LoadEntriesRejected(r)
  \/ \E i \in Ids : handleDelete(i)
  \/ \E r \in InFlight : HandleDeleteResolved(r)
  \/ \E r \in InFlight : HandleDeleteRejected(r)

LiveSessionSpec ==
  /\ AppInit /\ [][SessionNext]_vars
  /\ WF_vars(ServeCreate) /\ WF_vars(SettleCreate)
  /\ WF_vars(ServeDelete) /\ WF_vars(SettleDelete)

\* C29: busy indicators clear once the store answers: after every submit
\* isSubmitting eventually returns to false, and after every delete click
\* deletingId eventually returns to null, on success and on failure alike
C29_BusyIndicatorsClear ==
  /\ isSubmitting ~> ~isSubmitting
  /\ (deletingId # NoId) ~> (deletingId = NoId)

C29_Witness ==
  /\ ~isSubmitting /\ deletingId = NoId /\ net = EmptyBag
  /\ deleted # {}
  /\ Cardinality(usedIds) > Cardinality(DOMAIN store \cup deleted)

\* C30: in every reachable state of EntryList the displayed entries are in
\* non-increasing createdAt order and no two of them have the same id
C30_DisplaySortedNoDuplicates ==
  /\ \A i \in 1..(Len(entries) - 1) :
       entries[i].createdAt >= entries[i + 1].createdAt
  /\ \A i, j \in 1..Len(entries) : entries[i].id = entries[j].id => i = j

C30_Witness ==
  /\ Len(entries) >= 2
  /\ entries[1].createdAt > entries[2].createdAt
  /\ entries[1].id < entries[2].id
  /\ \E r \in InFlight : r.op = "delete" /\ r.phase = "err"
  /\ \E r \in InFlight : r.op = "list" /\ r.phase = "ok" /\ r.result # entries

====
